---- MODULE Spec2Model ----
(***************************************************************************)
(* A model of cocaine-core's wire-level core:                              *)
(*   - include/cocaine/rpc/slots/deferred.hpp: the deferred future         *)
(*     (future_state), its result visitor and the deferred slot;           *)
(*   - include/cocaine/lines.hpp: the socket wrapper and the typed channel *)
(*     (send, send_multi).                                                 *)
(* The deferred part is a set of threads (slot invocations and producers)  *)
(* stepping through the statements of attach/write/abort/close under the   *)
(* state mutex.  The channel part is single-threaded, one action per call. *)
(***************************************************************************)
EXTENDS Integers, Sequences, FiniteSets, TLC

\* ------------------------------------------------------------------ bounds

\* Slot invocations; invocation i is handed upstream i.
NumInvocations == 2
\* Producer threads holding the deferred handle; each makes one call of
\* write, abort or close.
NumProducers == 2

Invocations == 1..NumInvocations
Producers == (NumInvocations + 1)..(NumInvocations + NumProducers)
Threads == Invocations \cup Producers

\* Values a handler writes, (code, reason) pairs it aborts with, and the
\* errors a handler raises.
Values == {7, 8}
AbortArgs == {[code |-> 42, reason |-> "nope"]}
SystemErrors == {[code |-> 2, message |-> "No such file or directory"]}
SystemWhats == {"open: No such file or directory"}
Whats == {"boom"}

\* ------------------------------------------------------- deferred: state

VARIABLES
    isVoid,      \* TRUE for deferred<void> (close/abort), FALSE for deferred<T> (write/abort)
    result,      \* future_state::result, the variant
    upstream,    \* future_state::upstream, 0 for a null shared_ptr
    mutex,       \* future_state::mutex, 0 when free, else the owning thread
    pc,          \* per thread: the statement it is at
    op,          \* per thread: the call it is executing and its arguments
    todo,        \* per thread: the upstream calls its current visitor/catch block has left
    slotResult,  \* per invocation: how operator() left ("none" while running)
    ustate,      \* per upstream: Open or Sealed
    delivered,   \* per upstream: the messages it delivered
    winner,      \* history: the thread whose call assigned the result, 0 if none
    nflush       \* history: per upstream, visitor runs on a terminal result

dvars == <<isVoid, result, upstream, mutex, pc, op, todo, slotResult,
           ustate, delivered, winner, nflush>>

\* The four arms of result_type.
unassigned == [tag |-> "unassigned"]
value_type(v) == [tag |-> "value", value |-> v]
error_type(code, reason) == [tag |-> "error", code |-> code, reason |-> reason]
empty_type == [tag |-> "empty"]

\* The streaming<T> messages.
chunk(v) == [kind |-> "chunk", value |-> v]
error(code, reason) == [kind |-> "error", code |-> code, reason |-> reason]
choke == [kind |-> "choke"]

\* Calls on an upstream.
send(m) == [call |-> "send", msg |-> m]
seal(m) == [call |-> "seal", msg |-> m]

NoOp == [name |-> "none"]

\* The enumerator passed at deferred.hpp:68; it is declared outside the files
\* modelled here, only its being one fixed code matters.
invocation_error == 1

\* ---------------------------------------------------- upstream_t (from the spec)

\* Open --send--> Open, delivering the message; Sealed --send--> Sealed, dropped.
upstream_send(u, m) ==
    [state |-> u.state,
     delivered |-> IF u.state = "Open" THEN Append(u.delivered, m) ELSE u.delivered]

\* Open --seal--> Sealed, delivering the choke; idempotent once Sealed.
upstream_seal(u, m) ==
    [state |-> "Sealed",
     delivered |-> IF u.state = "Open" THEN Append(u.delivered, m) ELSE u.delivered]

upstream_apply(u, c) ==
    IF c.call = "send" THEN upstream_send(u, c.msg) ELSE upstream_seal(u, c.msg)

\* ------------------------------------------------------ deferred: operators

\* The visitor with the value arm sealing before it sends.
result_visitor_t_sealfirst(res) ==
    CASE res.tag = "unassigned" -> << >>
      [] res.tag = "value" -> << seal(choke), send(chunk(res.value)) >>
      [] res.tag = "error" -> << send(error(res.code, res.reason)), seal(choke) >>
      [] res.tag = "empty" -> << seal(choke) >>

\* The visitor with the error arm not sealing.
result_visitor_t_noseal(res) ==
    CASE res.tag = "unassigned" -> << >>
      [] res.tag = "value" -> << send(chunk(res.value)), seal(choke) >>
      [] res.tag = "error" -> << send(error(res.code, res.reason)) >>
      [] res.tag = "empty" -> << seal(choke) >>

\* result_visitor_t: the upstream calls made for each arm of the variant.
result_visitor_t(res) ==
    CASE res.tag = "unassigned" -> << >>
      [] res.tag = "value" -> << send(chunk(res.value)), seal(choke) >>
      [] res.tag = "error" -> << send(error(res.code, res.reason)), seal(choke) >>
      [] res.tag = "empty" -> << seal(choke) >>

\* future_state::flush: visit the result if an upstream is attached.
flush(up, res) == IF up # 0 THEN result_visitor_t(res) ELSE << >>

\* The guard of write/abort/close: boost::get<unassigned>(&result).
is_unassigned(res) == res.tag = "unassigned"

\* A lock_guard that does not exclude: the constructor returns at once.
mutex_free_unlocked == TRUE

\* std::lock_guard's constructor returns once the mutex is free.
mutex_free == mutex = 0

\* What a producer call stores when it finds the result unassigned.
assigned(o) ==
    CASE o.name = "write" -> value_type(o.value)
      [] o.name = "abort" -> error_type(o.code, o.reason)
      [] o.name = "close" -> empty_type

\* write/abort/close without the test for unassigned.
assign_result_unguarded(res, o) == [result |-> assigned(o), flush |-> TRUE]

\* The body of write/abort/close under the guard: if the result is unassigned,
\* store the new one and flush; otherwise do nothing.
assign_result(res, o) ==
    IF is_unassigned(res)
    THEN [result |-> assigned(o), flush |-> TRUE]
    ELSE [result |-> res, flush |-> FALSE]

\* The calls the handle exposes: deferred<T> has write and abort,
\* deferred<void> has close and abort.
ProducerOps(void) ==
    (IF void THEN {[name |-> "close"]}
             ELSE {[name |-> "write", value |-> v] : v \in Values})
    \cup {[name |-> "abort", code |-> a.code, reason |-> a.reason] : a \in AbortArgs}

\* --------------------------------------------------------- slot: operators

\* this->call(unpacked): unpack the arguments and run the handler.  It returns
\* a deferred, raises a typed system error carrying (code, message), or raises
\* another error carrying a description.
HandlerOutcomes ==
    {[name |-> "return"]}
    \cup {[name |-> "system_error", code |-> e.code, message |-> e.message, what |-> w] :
              e \in SystemErrors, w \in SystemWhats}
    \cup {[name |-> "exception", what |-> w] : w \in Whats}

\* std::system_error derives from std::exception.
is_system_error(o) == o.name = "system_error"
is_exception(o) == o.name \in {"system_error", "exception"}

\* The slot without its catch(const std::exception&) clause.
deferred_slot_catch_nocatch(o) ==
    IF o.name = "return"
    THEN [path |-> "attach", sends |-> << >>]
    ELSE IF is_system_error(o)
    THEN [path |-> "catch", sends |-> << send(error(o.code, o.message)), seal(choke) >>]
    ELSE [path |-> "propagate", sends |-> << >>]

\* The slot whose catch blocks do not seal the upstream.
deferred_slot_catch_noseal(o) ==
    IF o.name = "return"
    THEN [path |-> "attach", sends |-> << >>]
    ELSE IF is_system_error(o)
    THEN [path |-> "catch", sends |-> << send(error(o.code, o.message)) >>]
    ELSE IF is_exception(o)
    THEN [path |-> "catch", sends |-> << send(error(invocation_error, o.what)) >>]
    ELSE [path |-> "propagate", sends |-> << >>]

\* The slot whose catch(const std::exception&) block reports the code as the
\* description's place and drops the description.
deferred_slot_catch_nowhat(o) ==
    IF o.name = "return"
    THEN [path |-> "attach", sends |-> << >>]
    ELSE IF is_system_error(o)
    THEN [path |-> "catch", sends |-> << send(error(o.code, o.message)), seal(choke) >>]
    ELSE IF is_exception(o)
    THEN [path |-> "catch", sends |-> << send(error(invocation_error, "")), seal(choke) >>]
    ELSE [path |-> "propagate", sends |-> << >>]

\* The slot with its two catch clauses in the other order: the clause for
\* std::exception also catches a std::system_error.
deferred_slot_catch_swapped(o) ==
    IF o.name = "return"
    THEN [path |-> "attach", sends |-> << >>]
    ELSE IF is_exception(o)
    THEN [path |-> "catch", sends |-> << send(error(invocation_error, o.what)), seal(choke) >>]
    ELSE IF is_system_error(o)
    THEN [path |-> "catch", sends |-> << send(error(o.code, o.message)), seal(choke) >>]
    ELSE [path |-> "propagate", sends |-> << >>]

\* The try/catch of deferred_slot::operator(): which path an outcome takes and
\* what the catch block sends.
deferred_slot_catch(o) ==
    IF o.name = "return"
    THEN [path |-> "attach", sends |-> << >>]
    ELSE IF is_system_error(o)
    THEN [path |-> "catch", sends |-> << send(error(o.code, o.message)), seal(choke) >>]
    ELSE IF is_exception(o)
    THEN [path |-> "catch", sends |-> << send(error(invocation_error, o.what)), seal(choke) >>]
    ELSE [path |-> "propagate", sends |-> << >>]

\* ------------------------------------------------------------ channel: state

VARIABLES
    pending,     \* the socket: frames accepted with ZMQ_SNDMORE, their message not yet complete
    inq,         \* the peer: the complete multipart messages delivered to it
    attempts,    \* history: per send_multi call, the frames it handed to the socket
    returned,    \* history: per send_multi call, its arguments and what it returned
    endpoint,    \* socket_t::m_endpoint
    hostname,    \* config_t::get().core.hostname
    bound,       \* history: the argument and outcome of the last bind
    rd,          \* the receiving socket: frames of inq taken so far
    rcvmore,     \* the receiving socket: ZMQ_RCVMORE, set by the last frame taken
    received     \* history: the receiver's last call, its arguments and result

svars == <<pending, inq, attempts, returned>>
bvars == <<endpoint, hostname, bound>>
rvars == <<rd, rcvmore, received>>

cvars == <<svars, bvars, rvars>>

vars == <<dvars, cvars>>

\* ------------------------------------------------------- deferred: actions

DInit ==
    /\ isVoid \in BOOLEAN
    /\ result = unassigned
    /\ upstream = 0
    /\ mutex = 0
    /\ pc = [t \in Threads |-> "idle"]
    /\ op = [t \in Threads |-> NoOp]
    /\ todo = [t \in Threads |-> << >>]
    /\ slotResult = [i \in Invocations |-> "none"]
    /\ ustate = [i \in Invocations |-> "Open"]
    /\ delivered = [i \in Invocations |-> << >>]
    /\ winner = 0
    /\ nflush = [i \in Invocations |-> 0]

\* One call on upstream u.
UpstreamCall(u, c) ==
    LET r == upstream_apply([state |-> ustate[u], delivered |-> delivered[u]], c)
    IN /\ ustate' = [ustate EXCEPT ![u] = r.state]
       /\ delivered' = [delivered EXCEPT ![u] = r.delivered]

\* deferred_slot::operator(), line 63: this->call(unpacked) and the dispatch on
\* how it ended.
slot_call(i) ==
    /\ pc[i] = "idle"
    /\ \E o \in HandlerOutcomes :
        LET c == deferred_slot_catch(o)
        IN /\ op' = [op EXCEPT ![i] = o]
           /\ todo' = [todo EXCEPT ![i] = c.sends]
           /\ pc' = [pc EXCEPT ![i] = CASE c.path = "attach" -> "lock"
                                        [] c.path = "catch" -> "catch"
                                        [] OTHER -> "done"]
           /\ slotResult' = IF c.path = "propagate"
                            THEN [slotResult EXCEPT ![i] = "raised"]
                            ELSE slotResult
    /\ UNCHANGED <<isVoid, result, upstream, mutex, ustate, delivered, winner, nflush>>
    /\ UNCHANGED cvars

\* deferred_slot::operator(), lines 65-66 and 68-69: one upstream call of the
\* catch block; after the last one, line 73 returns the empty dispatch.
slot_catch(i) ==
    /\ pc[i] = "catch"
    /\ UpstreamCall(i, Head(todo[i]))
    /\ todo' = [todo EXCEPT ![i] = Tail(todo[i])]
    /\ IF Tail(todo[i]) = << >>
       THEN /\ pc' = [pc EXCEPT ![i] = "done"]
            /\ slotResult' = [slotResult EXCEPT ![i] = "empty_dispatch"]
       ELSE UNCHANGED <<pc, slotResult>>
    /\ UNCHANGED <<isVoid, result, upstream, mutex, op, winner, nflush>>
    /\ UNCHANGED cvars

\* A producer calls write, abort or close on its handle.
producer_call(p) ==
    /\ pc[p] = "idle"
    /\ \E o \in ProducerOps(isVoid) : op' = [op EXCEPT ![p] = o]
    /\ pc' = [pc EXCEPT ![p] = "lock"]
    /\ UNCHANGED <<isVoid, result, upstream, mutex, todo, slotResult, ustate, delivered,
                   winner, nflush>>
    /\ UNCHANGED cvars

\* std::lock_guard<std::mutex> guard(mutex), lines 125, 147, 157, 167.
lock(t) ==
    /\ pc[t] = "lock"
    /\ mutex_free
    /\ mutex' = t
    /\ pc' = [pc EXCEPT ![t] = "body"]
    /\ UNCHANGED <<isVoid, result, upstream, op, todo, slotResult, ustate, delivered,
                   winner, nflush>>
    /\ UNCHANGED cvars

\* write/abort/close, lines 127-128, 149-150, 159-160: assign if unassigned.
assign(p) ==
    /\ pc[p] = "body"
    /\ LET r == assign_result(result, op[p])
       IN /\ result' = r.result
          /\ winner' = IF r.flush THEN p ELSE winner
          /\ pc' = [pc EXCEPT ![p] = IF r.flush THEN "flush" ELSE "unlock"]
    /\ UNCHANGED <<isVoid, upstream, mutex, op, todo, slotResult, ustate, delivered,
                   nflush>>
    /\ UNCHANGED cvars

\* attach storing the upstream only when none is stored yet.
attach_upstream_once(stored, upstream_) == IF stored = 0 THEN upstream_ ELSE stored

\* attach, line 169: upstream = upstream_, whatever was stored.
attach_upstream(stored, upstream_) == upstream_

\* unlock without the release of the mutex.
unlock_keeps(t) ==
    /\ pc[t] = "unlock"
    /\ pc' = [pc EXCEPT ![t] = "done"]
    /\ IF t \in Invocations
       THEN /\ slotResult' = [slotResult EXCEPT ![t] = "empty_dispatch"]
            /\ UNCHANGED op
       ELSE /\ op' = [op EXCEPT ![t] = NoOp]
            /\ UNCHANGED slotResult
    /\ UNCHANGED <<isVoid, result, upstream, mutex, todo, ustate, delivered, winner, nflush>>
    /\ UNCHANGED cvars

\* attach, line 169: upstream = upstream_.
attach_set(i) ==
    /\ pc[i] = "body"
    /\ upstream' = attach_upstream(upstream, i)
    /\ pc' = [pc EXCEPT ![i] = "check"]
    /\ UNCHANGED <<isVoid, result, mutex, op, todo, slotResult, ustate, delivered,
                   winner, nflush>>
    /\ UNCHANGED cvars

\* attach, line 171: flush unless the result is unassigned.
attach_check(i) ==
    /\ pc[i] = "check"
    /\ pc' = [pc EXCEPT ![i] = IF ~is_unassigned(result) THEN "flush" ELSE "unlock"]
    /\ UNCHANGED <<isVoid, result, upstream, mutex, op, todo, slotResult, ustate,
                   delivered, winner, nflush>>
    /\ UNCHANGED cvars

\* flush, line 179: test the upstream and have the visitor pick its arm.
flush_visit(t) ==
    /\ pc[t] = "flush"
    /\ LET sends == flush(upstream, result)
       IN /\ todo' = [todo EXCEPT ![t] = sends]
          /\ pc' = [pc EXCEPT ![t] = IF sends = << >> THEN "unlock" ELSE "visit"]
    /\ nflush' = IF upstream # 0 /\ ~is_unassigned(result)
                 THEN [nflush EXCEPT ![upstream] = nflush[upstream] + 1]
                 ELSE nflush
    /\ UNCHANGED <<isVoid, result, upstream, mutex, op, slotResult, ustate, delivered,
                   winner>>
    /\ UNCHANGED cvars

\* result_visitor_t::operator(), lines 199-200, 205-206, 211: one upstream call,
\* through the visitor's reference to the state's upstream.
visit(t) ==
    /\ pc[t] = "visit"
    /\ UpstreamCall(upstream, Head(todo[t]))
    /\ todo' = [todo EXCEPT ![t] = Tail(todo[t])]
    /\ pc' = [pc EXCEPT ![t] = IF Tail(todo[t]) = << >> THEN "unlock" ELSE "visit"]
    /\ UNCHANGED <<isVoid, result, upstream, mutex, op, slotResult, winner, nflush>>
    /\ UNCHANGED cvars

\* The guard's destructor at the end of write/abort/close/attach; attach's
\* caller then returns the empty dispatch (line 73).
unlock(t) ==
    /\ pc[t] = "unlock"
    /\ mutex' = 0
    /\ pc' = [pc EXCEPT ![t] = "done"]
    /\ IF t \in Invocations
       THEN /\ slotResult' = [slotResult EXCEPT ![t] = "empty_dispatch"]
            /\ UNCHANGED op
       ELSE /\ op' = [op EXCEPT ![t] = NoOp]
            /\ UNCHANGED slotResult
    /\ UNCHANGED <<isVoid, result, upstream, todo, ustate, delivered, winner, nflush>>
    /\ UNCHANGED cvars

\* --------------------------------------------------------- channel: bounds

\* Largest tuple handed to send_multi.
MaxArity == 3
\* Calls of send_multi on the channel.
MaxSends == 2

\* ------------------------------------------------------ channel: operators

\* The flags of zmq::socket_t::send, a bit mask, as the set of the bits set.
ZMQ_NOBLOCK == {"NOBLOCK"}
ZMQ_SNDMORE == {"SNDMORE"}
BitOr(a, b) == a \cup b

\* A string value, as its bytes.
Str(bytes) == [t |-> "str", v |-> bytes]

\* The tuple of arity n handed to the c-th call: "A","B","C" for the first,
\* the following letters for the next.
Tuple(c, n) == [j \in 1..n |-> Str(<< 64 + (c - 1) * MaxArity + j >>)]

\* An integer value and a raw byte string (raw<std::string>).
Num(n) == [t |-> "int", n |-> n]
Raw(bytes) == [t |-> "raw", v |-> bytes]

\* msgpack::pack: a string as the raw header (0xa0 | length) and its bytes, a
\* small non-negative integer as one positive-fixnum byte; raw<T>::pack copies
\* the bytes as they are.
Pack(x) ==
    IF x.t = "str" THEN << 160 + Len(x.v) >> \o x.v
    ELSE IF x.t = "int" THEN << x.n >>
    ELSE [j \in 1..Len(x.v) |-> x.v[j]]

\* raw<std::string>::unpack reading the frame as a C string: up to the first
\* zero byte.
RawUnpack_cstr(data) ==
    LET zeros == {j \in 1..Len(data) : data[j] = 0}
    IN IF zeros = {}
       THEN data
       ELSE SubSeq(data, 1, (CHOOSE j \in zeros : \A k \in zeros : j <= k) - 1)

\* raw<std::string>::unpack: assign(data, size), the frame's size bytes.
RawUnpack(data) == SubSeq(data, 1, Len(data))

\* The frames of a tuple, packed.
Frames(o) == [j \in 1..Len(o) |-> Pack(o[j])]

\* zmq::socket_t::send behind socket_t::send: the frame is refused (false, or
\* zmq::error_t caught and logged), or accepted; an accepted frame sent with
\* ZMQ_SNDMORE joins the message being built, one sent without it completes
\* that message, which is then delivered whole.
socket_send(sock, data, flags, accepted) ==
    IF ~accepted
    THEN [ok |-> FALSE, sock |-> sock]
    ELSE IF ZMQ_SNDMORE \subseteq flags
    THEN [ok |-> TRUE,
          sock |-> [sock EXCEPT !.pending = Append(@, data)]]
    ELSE [ok |-> TRUE,
          sock |-> [pending |-> << >>,
                    inq |-> Append(sock.inq, Append(sock.pending, data))]]

\* channel_t::send<T>: pack the value and send the frame. The result carries
\* the socket and the log of frames tried.
channel_send(st, value, flags, accepted) ==
    LET r == socket_send(st.sock, Pack(value), flags, accepted)
    IN [ok |-> r.ok,
        sock |-> r.sock,
        tried |-> Append(st.tried, [value |-> value, flags |-> flags, ok |-> r.ok])]

\* send_multi joining head and tail with & for &&: the tail is sent whatever
\* became of the head.
RECURSIVE send_multi_eager(_, _, _, _)
send_multi_eager(st, o, flags, oracle) ==
    IF o = << >>
    THEN [ok |-> TRUE, sock |-> st.sock, tried |-> st.tried]
    ELSE IF Tail(o) = << >>
    THEN channel_send(st, Head(o), flags, Head(oracle))
    ELSE LET h == channel_send(st, Head(o), BitOr(ZMQ_SNDMORE, flags), Head(oracle))
             t == send_multi_eager(h, Tail(o), flags, Tail(oracle))
         IN [ok |-> h.ok /\ t.ok, sock |-> t.sock, tried |-> t.tried]

\* channel_t::send_multi, its three overloads: the empty tuple, the last
\* element, and head && tail. oracle[j] is whether the socket accepts the
\* j-th frame handed to it.
RECURSIVE send_multi(_, _, _, _)
send_multi(st, o, flags, oracle) ==
    IF o = << >>
    THEN [ok |-> TRUE, sock |-> st.sock, tried |-> st.tried]
    ELSE IF Tail(o) = << >>
    THEN channel_send(st, Head(o), flags, Head(oracle))
    ELSE LET h == channel_send(st, Head(o), BitOr(ZMQ_SNDMORE, flags), Head(oracle))
         IN IF h.ok
            THEN send_multi(h, Tail(o), flags, Tail(oracle))
            ELSE h

\* ------------------------------------------------------- channel: actions

CInit ==
    /\ pending = << >>
    /\ inq = << >>
    /\ attempts = << >>
    /\ returned = << >>
    /\ endpoint = << >>
    /\ hostname = << >>
    /\ bound = [arg |-> << >>, ok |-> FALSE]
    /\ rd = 0
    /\ rcvmore = FALSE
    /\ received = [call |-> "none"]

\* One call send_multi(tuple, flags): the tuple's arity, the flags and the
\* frame the socket refuses (none when failAt is past the last) are the inputs.
send_multi_call ==
    /\ Len(returned) < MaxSends
    /\ \E n \in 0..MaxArity, failAt \in 1..(MaxArity + 1), flags \in {{}, ZMQ_NOBLOCK} :
        /\ failAt <= n + 1
        /\ LET o == Tuple(Len(returned) + 1, n)
               oracle == [j \in 1..n |-> j # failAt]
               r == send_multi([sock |-> [pending |-> pending, inq |-> inq],
                                tried |-> << >>], o, flags, oracle)
           IN /\ pending' = r.sock.pending
              /\ inq' = r.sock.inq
              /\ attempts' = Append(attempts, r.tried)
              /\ returned' = Append(returned, [tuple |-> o, flags |-> flags, ok |-> r.ok])
    /\ UNCHANGED <<bvars, rvars>>
    /\ UNCHANGED dvars

\* The deferred is untouched by the channel's specification.
DIdle == DInit /\ isVoid = FALSE

ChannelInit == CInit /\ DIdle

ChannelNext == send_multi_call

ChannelSpec == ChannelInit /\ [][ChannelNext]_vars

\* ------------------------------------------------------ channel: receiving

\* The frames of the delivered messages in the order the receiving socket
\* hands them out, each with whether more frames of its message follow it.
RECURSIVE Flat(_)
Flat(q) ==
    IF q = << >>
    THEN << >>
    ELSE [j \in 1..Len(Head(q)) |-> [data |-> Head(q)[j], more |-> j < Len(Head(q))]]
         \o Flat(Tail(q))

\* socket_t::more: whether the frame last taken has frames of its message
\* following it.
socket_more(sock) == sock.more

\* zmq::socket_t::recv behind socket_t::recv: the next frame when one is
\* queued, false when none is (EAGAIN, or zmq::error_t caught and logged).
socket_recv(sock, q) ==
    IF sock.rd < Len(q)
    THEN [ok |-> TRUE,
          data |-> q[sock.rd + 1].data,
          sock |-> [rd |-> sock.rd + 1, more |-> q[sock.rd + 1].more]]
    ELSE [ok |-> FALSE, data |-> << >>, sock |-> sock]

\* msgpack::unpack: a positive fixnum byte is an integer, a fixraw header
\* followed by at least the bytes it announces is a string; bytes past the
\* object are left alone; anything else is an unpack_error.
Unpack(bytes) ==
    IF bytes = << >>
    THEN [ok |-> FALSE]
    ELSE IF bytes[1] < 128
    THEN [ok |-> TRUE, value |-> Num(bytes[1])]
    ELSE IF bytes[1] >= 160 /\ bytes[1] < 192 /\ Len(bytes) >= 1 + (bytes[1] - 160)
    THEN [ok |-> TRUE, value |-> Str(SubSeq(bytes, 2, 1 + (bytes[1] - 160)))]
    ELSE [ok |-> FALSE]

\* msgpack::object::convert: a type_error unless the object is of the type
\* asked for.
Convert(u, type) == u.ok /\ u.value.t = type

\* channel_t::ignore with the loop as do { recv } while(more()).
RECURSIVE ignore_dowhile(_, _)
ignore_dowhile(sock, q) ==
    LET r == socket_recv(sock, q)
    IN IF r.ok /\ socket_more(r.sock)
       THEN ignore_dowhile(r.sock, q)
       ELSE r.sock

\* channel_t::ignore: while(more()) recv(&null). A message is delivered whole,
\* so a frame that more() announces is queued and recv takes it.
RECURSIVE ignore(_, _)
ignore(sock, q) ==
    IF socket_more(sock)
    THEN LET r == socket_recv(sock, q)
         IN IF r.ok THEN ignore(r.sock, q) ELSE r.sock
    ELSE sock

\* channel_t::recv<T> on a decode failure also dropping the rest of the message.
channel_recv_draining(st, q, type) ==
    LET r == socket_recv(st.sock, q)
        u == Unpack(r.data)
    IN IF ~r.ok
       THEN [ok |-> FALSE, sock |-> st.sock, got |-> st.got]
       ELSE IF type = "raw"
       THEN [ok |-> TRUE, sock |-> r.sock, got |-> Append(st.got, Raw(RawUnpack(r.data)))]
       ELSE IF Convert(u, type)
       THEN [ok |-> TRUE, sock |-> r.sock, got |-> Append(st.got, u.value)]
       ELSE [ok |-> FALSE, sock |-> ignore(r.sock, q), got |-> st.got]

\* channel_t::recv<T> and channel_t::recv(raw<T>&): take one frame, false when
\* the socket has none; a raw result is the frame's bytes; a typed result is the
\* frame unpacked and converted, and a frame that does not decode is logged
\* and answered with false. The result carries the socket and the values read.
channel_recv(st, q, type) ==
    LET r == socket_recv(st.sock, q)
        u == Unpack(r.data)
    IN IF ~r.ok
       THEN [ok |-> FALSE, sock |-> st.sock, got |-> st.got]
       ELSE IF type = "raw"
       THEN [ok |-> TRUE, sock |-> r.sock, got |-> Append(st.got, Raw(RawUnpack(r.data)))]
       ELSE IF Convert(u, type)
       THEN [ok |-> TRUE, sock |-> r.sock, got |-> Append(st.got, u.value)]
       ELSE [ok |-> FALSE, sock |-> r.sock, got |-> st.got]

\* channel_t::recv_multi, its two overloads: the empty tuple, and
\* recv(head) && recv_multi(tail).
RECURSIVE recv_multi(_, _, _)
recv_multi(st, q, types) ==
    IF types = << >>
    THEN [ok |-> TRUE, sock |-> st.sock, got |-> st.got]
    ELSE LET h == channel_recv(st, q, Head(types))
         IN IF h.ok
            THEN recv_multi(h, q, Tail(types))
            ELSE h

\* What the peer has sent when the receiver starts: up to MaxSends messages of
\* one to MaxArity string frames each.
PeerQueues ==
    UNION {{[c \in 1..m |-> Frames(Tuple(c, len[c]))] : len \in [1..m -> 1..MaxArity]}
           : m \in 0..MaxSends}

RecvInit ==
    /\ pending = << >>
    /\ inq \in PeerQueues
    /\ attempts = << >>
    /\ returned = << >>
    /\ endpoint = << >>
    /\ hostname = << >>
    /\ bound = [arg |-> << >>, ok |-> FALSE]
    /\ rd = 0
    /\ rcvmore = FALSE
    /\ received = [call |-> "none"]
    /\ DIdle

\* One call recv_multi(tuple): the tuple's arity and the element read as an
\* integer (none when badAt is 0; the others are read as strings) are the inputs.
recv_multi_call ==
    /\ \E n \in 0..MaxArity, badAt \in 0..MaxArity :
        /\ badAt <= n
        /\ LET types == [j \in 1..n |-> IF j = badAt THEN "int" ELSE "str"]
               r == recv_multi([sock |-> [rd |-> rd, more |-> rcvmore], got |-> << >>],
                               Flat(inq), types)
           IN /\ rd' = r.sock.rd
              /\ rcvmore' = r.sock.more
              /\ received' = [call |-> "recv_multi", types |-> types, from |-> rd,
                              ok |-> r.ok, got |-> r.got]
    /\ UNCHANGED <<svars, bvars>>
    /\ UNCHANGED dvars

\* One call ignore().
ignore_call ==
    /\ LET r == ignore([rd |-> rd, more |-> rcvmore], Flat(inq))
       IN /\ rd' = r.rd
          /\ rcvmore' = r.more
          /\ received' = [call |-> "ignore", types |-> << >>, from |-> rd,
                          ok |-> TRUE, got |-> << >>]
    /\ UNCHANGED <<svars, bvars>>
    /\ UNCHANGED dvars

RecvNext == recv_multi_call \/ ignore_call

RecvSpec == RecvInit /\ [][RecvNext]_vars

\* ------------------------------------------------------ channel: round trip

\* The values sent one to a frame: strings, small integers, raw byte strings.
RtValues ==
    {Str(<< >>), Str(<<65>>), Str(<<65, 0>>),
     Num(0), Num(7), Num(127),
     Raw(<< >>), Raw(<<0>>), Raw(<<65, 0, 200>>), Raw(<<161, 65>>)}

\* One call send(value) or send(protect(value), 0): the value and whether the
\* socket accepts the frame are the inputs.
send_call ==
    /\ Len(returned) < MaxSends
    /\ \E value \in RtValues, accepted \in BOOLEAN :
        LET r == channel_send([sock |-> [pending |-> pending, inq |-> inq],
                               tried |-> << >>], value, {}, accepted)
        IN /\ pending' = r.sock.pending
           /\ inq' = r.sock.inq
           /\ attempts' = Append(attempts, r.tried)
           /\ returned' = Append(returned, [value |-> value, flags |-> {}, ok |-> r.ok])
    /\ UNCHANGED <<bvars, rvars>>
    /\ UNCHANGED dvars

\* One call recv(result) or recv(protect(result), 0): the type of result is
\* the input.
recv_call ==
    /\ \E type \in {"str", "int", "raw"} :
        LET r == channel_recv([sock |-> [rd |-> rd, more |-> rcvmore], got |-> << >>],
                              Flat(inq), type)
        IN /\ rd' = r.sock.rd
           /\ rcvmore' = r.sock.more
           /\ received' = [call |-> "recv", types |-> <<type>>, from |-> rd,
                           ok |-> r.ok, got |-> r.got]
    /\ UNCHANGED <<svars, bvars>>
    /\ UNCHANGED dvars

RoundTripNext == send_call \/ recv_call

RoundTripSpec == ChannelInit /\ [][RoundTripNext]_vars

\* ---------------------------------------------------------- socket: bind

MaxLen == 4

\* The characters endpoints are made of, and a string as its characters.
Chars == {":", "a", "1"}
Endpoints == UNION {[1..n -> Chars] : n \in 0..MaxLen}
Hostnames == {<<"h">>, <<"n", "2">>}
Local == <<"<", "l", "o", "c", "a", "l", ">">>

\* std::string::find_first_of in place of find_last_of.
find_first_of(str, c) ==
    LET at == {j \in 1..Len(str) : str[j] = c}
    IN IF at = {} THEN 0 ELSE CHOOSE j \in at : \A k \in at : j <= k

\* std::string::find_last_of: the place of the last c in str, counted from 1,
\* and 0 for std::string::npos.
find_last_of(str, c) ==
    LET at == {j \in 1..Len(str) : str[j] = c}
    IN IF at = {} THEN 0 ELSE CHOOSE j \in at : \A k \in at : j >= k

\* std::string::substr(position, npos).
substr(str, position) == SubSeq(str, position, Len(str))

\* What socket_t::bind stores in m_endpoint once the socket is bound.
bind_endpoint(host, e) ==
    LET position == find_last_of(e, ":")
    IN IF position # 0
       THEN host \o substr(e, position)
       ELSE Local

BindInit ==
    /\ pending = << >>
    /\ inq = << >>
    /\ attempts = << >>
    /\ returned = << >>
    /\ endpoint = << >>
    /\ hostname \in Hostnames
    /\ bound = [arg |-> << >>, ok |-> FALSE]
    /\ rd = 0
    /\ rcvmore = FALSE
    /\ received = [call |-> "none"]
    /\ DIdle

\* One call bind(e): zmq::socket_t::bind binds the socket or throws
\* zmq::error_t, which leaves bind before m_endpoint is assigned.
bind(e, valid) ==
    /\ bound' = [arg |-> e, ok |-> valid]
    /\ endpoint' = IF valid THEN bind_endpoint(hostname, e) ELSE endpoint
    /\ UNCHANGED hostname
    /\ UNCHANGED <<svars, rvars>>
    /\ UNCHANGED dvars

BindNext == \E e \in Endpoints, valid \in BOOLEAN : bind(e, valid)

BindSpec == BindInit /\ [][BindNext]_vars

\* The channel is untouched by the deferred's specification.
CIdle == CInit

Init == DInit /\ CIdle

Next ==
    \/ \E i \in Invocations : slot_call(i)
    \/ \E i \in Invocations : slot_catch(i)
    \/ \E p \in Producers : producer_call(p)
    \/ \E t \in Threads : lock(t)
    \/ \E p \in Producers : assign(p)
    \/ \E i \in Invocations : attach_set(i)
    \/ \E i \in Invocations : attach_check(i)
    \/ \E t \in Threads : flush_visit(t)
    \/ \E t \in Threads : visit(t)
    \/ \E t \in Threads : unlock(t)

Spec == Init /\ [][Next]_vars

\* Every thread that can take a step eventually takes one: the slot runs on,
\* a blocked lock_guard is granted the mutex, and every producer makes its calls.
Step(t) ==
    \/ t \in Invocations /\ (slot_call(t) \/ slot_catch(t) \/ attach_set(t) \/ attach_check(t))
    \/ t \in Producers /\ (producer_call(t) \/ assign(t))
    \/ lock(t) \/ flush_visit(t) \/ visit(t) \/ unlock(t)

FairSpec == Spec /\ \A t \in Threads : WF_vars(Step(t))

\* ------------------------------------------------------------------ claims

\* What the flush policy's table prescribes for each state of the deferred.
TerminalSequence(res) ==
    IF res.tag = "value" THEN << chunk(res.value), choke >>
    ELSE IF res.tag = "error" THEN << error(res.code, res.reason), choke >>
    ELSE IF res.tag = "empty" THEN << choke >>
    ELSE << >>

IsPrefix(a, b) == Len(a) <= Len(b) /\ SubSeq(b, 1, Len(a)) = a

\* attach(i) has returned.
Attached(i) == pc[i] = "done" /\ op[i].name = "return"

\* The call that assigned the result has returned.
Assigned == winner # 0 /\ pc[winner] = "done"

\* C1: single assignment. Once the result has left Unassigned no step changes
\* it, and a write/abort/close that finds it assigned goes straight to its
\* return: it stores nothing and makes no call on the upstream.
C1_SingleAssignment ==
    [][ /\ (~is_unassigned(result) => result' = result)
        /\ \A p \in Producers :
             (pc[p] = "body" /\ pc'[p] # "body" /\ ~is_unassigned(result))
                => (pc'[p] = "unlock" /\ delivered' = delivered /\ winner' = winner) ]_vars

\* C1 witness: a producer other than the one that assigned the result has made
\* its call and returned, with the terminal sequence delivered.
C1_Witness ==
    \E p \in Producers :
        /\ winner # 0 /\ p # winner
        /\ pc[p] = "done" /\ pc[winner] = "done"
        /\ upstream # 0 /\ delivered[upstream] = TerminalSequence(result)
        /\ result.tag = "value"

\* C2: flush exactly once. No upstream is flushed twice, and once both the
\* attach of the stored upstream and the terminal write/abort/close have
\* returned, it has been flushed exactly once and holds the terminal sequence
\* exactly once.
C2_FlushExactlyOnce ==
    \A i \in Invocations :
        /\ nflush[i] <= 1
        /\ (Attached(i) /\ Assigned /\ upstream = i)
              => (nflush[i] = 1 /\ delivered[i] = TerminalSequence(result))

\* C2 witness: attach-before-write. The producer that assigned the result is
\* about to release the mutex after flushing onto an upstream whose attach had
\* already returned.
C2_Witness ==
    /\ winner # 0 /\ pc[winner] = "unlock" /\ mutex = winner
    /\ upstream # 0 /\ Attached(upstream)
    /\ nflush[upstream] = 1
    /\ Len(delivered[upstream]) = 2

\* C3: the flushed sequence is a function of the terminal state alone. What an
\* attached upstream has received is always a prefix of the sequence the table
\* gives for the current result (nothing while Unassigned), and the whole of it
\* once no thread holds the mutex.
C3_FlushSequence ==
    \A i \in Invocations :
        op[i].name = "return" =>
            /\ IsPrefix(delivered[i], TerminalSequence(result))
            /\ (mutex = 0 /\ upstream = i /\ ~is_unassigned(result) /\ pc[i] = "done")
                  => delivered[i] = TerminalSequence(result)

\* C3 witness: write-before-attach. The slot thread is about to leave attach
\* having itself flushed chunk(7), choke.
C3_Witness ==
    \E i \in Invocations :
        /\ pc[i] = "unlock" /\ mutex = i /\ upstream = i
        /\ result = value_type(7)
        /\ delivered[i] = << chunk(7), choke >>

\* C4: the slot never raises. No invocation ends by propagating, and every
\* invocation that has ended returned the empty dispatch.
C4_SlotNeverRaises ==
    \A i \in Invocations :
        /\ slotResult[i] # "raised"
        /\ pc[i] = "done" => slotResult[i] = "empty_dispatch"

\* C4 witness: the three handler outcomes have each ended (two invocations
\* suffice for a raising one and a returning one).
C4_Witness ==
    \E i, j \in Invocations :
        /\ pc[i] = "done" /\ op[i].name = "exception"
        /\ pc[j] = "done" /\ op[j].name \in {"return", "system_error"}
        /\ slotResult[i] = "empty_dispatch" /\ slotResult[j] = "empty_dispatch"

\* C5 as stated: every invocation's upstream is eventually sealed.
C5_EventuallySealed ==
    \A i \in Invocations : (pc[i] # "idle") ~> (ustate[i] = "Sealed")

\* C5 amended: an upstream whose handler raised is sealed when the slot
\* returns; an upstream attached to a deferred is sealed exactly when the
\* deferred's terminal state has been flushed onto it, which has happened once
\* the result is terminal, the upstream is still the stored one and no call
\* holds the mutex.
C5_SealedWhenFlushed ==
    \A i \in Invocations :
        pc[i] = "done" =>
            IF op[i].name = "return"
            THEN /\ ustate[i] = "Sealed" => (nflush[i] = 1 /\ ~is_unassigned(result))
                 /\ (~is_unassigned(result) /\ upstream = i /\ mutex = 0) => ustate[i] = "Sealed"
            ELSE ustate[i] = "Sealed"

\* C5 witness: one upstream was sealed by its catch block, another is attached
\* and still Open because the deferred is still unassigned.
C5_Witness ==
    \E i, j \in Invocations :
        /\ pc[i] = "done" /\ op[i].name = "exception" /\ ustate[i] = "Sealed"
        /\ Attached(j) /\ upstream = j /\ is_unassigned(result) /\ ustate[j] = "Open"

\* C6: an error that is not a system error is delivered as
\* error(invocation_error, description), choke and nothing else.
C6_InvocationError ==
    \A i \in Invocations :
        op[i].name = "exception" =>
            LET whole == << error(invocation_error, op[i].what), choke >>
            IN /\ IsPrefix(delivered[i], whole)
               /\ pc[i] = "done" => delivered[i] = whole

\* C6 witness: the scenario's handler raising "boom" has been served.
C6_Witness ==
    \E i \in Invocations :
        /\ pc[i] = "done" /\ op[i] = [name |-> "exception", what |-> "boom"]
        /\ delivered[i] = << error(invocation_error, "boom"), choke >>

\* C7: a typed system error is delivered with its own code and message,
\* followed by choke, directly: the upstream is never attached to the deferred
\* and never flushed onto.
C7_SystemError ==
    \A i \in Invocations :
        op[i].name = "system_error" =>
            LET whole == << error(op[i].code, op[i].message), choke >>
            IN /\ IsPrefix(delivered[i], whole)
               /\ pc[i] = "done" => delivered[i] = whole
               /\ upstream # i
               /\ nflush[i] = 0

\* C7 witness: a system error has been served while the deferred, written and
\* attached elsewhere, was flushed onto another upstream.
C7_Witness ==
    \E i, j \in Invocations :
        /\ pc[i] = "done" /\ op[i].name = "system_error"
        /\ delivered[i] = << error(2, "No such file or directory"), choke >>
        /\ nflush[j] = 1 /\ upstream = j

\* The upstream a thread with calls left is making them on.
Target(t) == IF t \in Invocations /\ pc[t] = "catch" THEN t ELSE upstream
Sending(i) == \E t \in Threads : todo[t] # << >> /\ Target(t) = i

\* What one upstream delivered is in order: the choke is last and unique, the
\* upstream is Sealed exactly when it delivered the choke, and what was
\* delivered ends with the choke unless a sender still has calls to make.
Ordered(d, st, busy) ==
    /\ \A k \in 1..Len(d) : d[k] = choke => k = Len(d)
    /\ (st = "Sealed") <=> (d # << >> /\ d[Len(d)] = choke)
    /\ (d # << >> /\ ~busy) => d[Len(d)] = choke

C9_SendMulti ==
    \A c \in 1..Len(returned) :
        LET o == returned[c].tuple
            n == Len(o)
            a == attempts[c]
        IN /\ Len(a) <= n
           /\ \A j \in 1..Len(a) :
                /\ a[j].value = o[j]
                /\ ("SNDMORE" \in a[j].flags) <=> (j < n)
                /\ j < Len(a) => a[j].ok
           /\ returned[c].ok <=> (Len(a) = n /\ \A j \in 1..n : a[j].ok)
           /\ ~returned[c].ok => (Len(a) >= 1 /\ ~a[Len(a)].ok)

\* C9 witness: a tuple of three sent whole, and a tuple of three whose second
\* frame was refused.
C9_Witness ==
    \E c, d \in 1..Len(returned) :
        /\ Len(returned[c].tuple) = 3 /\ returned[c].ok /\ Len(attempts[c]) = 3
        /\ Len(returned[d].tuple) = 3 /\ ~returned[d].ok /\ Len(attempts[d]) = 2

\* C10: atomic multipart. Every message the peer receives is exactly the
\* frames of one send_multi call that returned true.
C10_AtomicMultipart ==
    \A k \in 1..Len(inq) :
        \E c \in 1..Len(returned) :
            returned[c].ok /\ inq[k] = Frames(returned[c].tuple)

\* The number of frames of the messages before the c-th.
RECURSIVE Offset(_, _)
Offset(q, c) == IF c <= 1 THEN 0 ELSE Offset(q, c - 1) + Len(q[c - 1])

\* The message the k-th frame belongs to, and the number of its last frame.
MsgOf(q, k) == CHOOSE c \in 1..Len(q) : Offset(q, c) < k /\ k <= Offset(q, c) + Len(q[c])
MsgEnd(q, k) == Offset(q, MsgOf(q, k)) + Len(q[MsgOf(q, k)])

\* The frames of the current message still queued once k frames are taken:
\* the rest of the message the k-th frame belongs to or, when that message is
\* finished, the whole of the following one.
Available(q, k, more) ==
    IF more THEN MsgEnd(q, k) - k
    ELSE IF k < Len(Flat(q)) THEN MsgEnd(q, k + 1) - k
    ELSE 0

\* C11: recv_multi of arity n decodes the frames in order; when the current
\* message has fewer than n frames it returns failure, and it never takes a
\* frame of the following message.
C11_RecvMulti ==
    received.call = "recv_multi" =>
        LET n == Len(received.types)
            avail == Available(inq, received.from,
                               received.from > 0 /\ Flat(inq)[received.from].more)
        IN /\ received.ok =>
                \A j \in 1..n : Pack(received.got[j]) = Flat(inq)[received.from + j].data
           /\ avail < n => ~received.ok
           /\ rd <= received.from + avail

\* The first element of the tuple read as an integer or past the queued
\* frames, n + 1 when there is none. The peer's frames are all strings.
FirstBad(types, from, len) ==
    CHOOSE k \in 1..(Len(types) + 1) :
        /\ k <= Len(types) => (types[k] = "int" \/ from + k > len)
        /\ \A j \in 1..(k - 1) : types[j] = "str" /\ from + j <= len

\* C15: a recv<T> that is handed a frame consumes exactly that frame whether
\* it decodes or not; a recv_multi stops at the first frame that does not
\* decode, having consumed it and returned failure, and leaves the frames
\* after it queued.
C15_OneFramePerRecv ==
    received.call = "recv_multi" =>
        LET q == Flat(inq)
            n == Len(received.types)
            k == FirstBad(received.types, received.from, Len(q))
        IN /\ received.ok = (k = n + 1)
           /\ Len(received.got) = k - 1
           /\ k <= n /\ received.from + k <= Len(q) =>
                /\ rd = received.from + k
                /\ rcvmore = q[rd].more
           /\ k <= n /\ received.from + k > Len(q) => rd = Len(q)
           /\ k = n + 1 => rd = received.from + n

\* A recv_multi of arity 3 whose second element does not decode, on a message
\* of three frames: one value read, two frames consumed, the third queued.
C15_Witness ==
    /\ received.call = "recv_multi"
    /\ received.types = <<"str", "int", "str">>
    /\ received.from = 0
    /\ Len(inq) >= 1 /\ Len(inq[1]) = 3
    /\ ~received.ok
    /\ received.got = <<Str(<<65>>)>>
    /\ rd = 2
    /\ rcvmore

\* C16: ignore, called after frames of a message were received, discards
\* exactly the frames of that message still queued: afterwards more() is
\* false, and the next recv returns the first frame of the next message.
C16_Ignore ==
    [][/\ (received'.call = "ignore" /\ rd >= 1) =>
            /\ rd' = MsgEnd(inq, rd)
            /\ ~rcvmore'
       /\ (/\ received.call = "ignore"
           /\ received.from >= 1
           /\ received'.call = "recv_multi"
           /\ received'.types # << >>
           /\ Head(received'.types) = "str"
           /\ rd < Len(Flat(inq))) =>
            /\ rd = Offset(inq, MsgOf(inq, rd + 1))
            /\ received'.got # << >>
            /\ Head(received'.got) = Tuple(MsgOf(inq, rd + 1), 1)[1]]_vars

\* ignore after the first frame of a three-frame message, with another
\* message queued behind it: the two remaining frames are gone.
C16_Witness ==
    /\ received.call = "ignore"
    /\ received.from = 1
    /\ Len(inq) = 2 /\ Len(inq[1]) = 3
    /\ rd = 3
    /\ ~rcvmore

\* The sends the socket accepted, in order: the k-th is the k-th frame queued.
RECURSIVE Sent(_)
Sent(log) ==
    IF log = << >> THEN << >>
    ELSE IF Head(log).ok THEN <<Head(log)>> \o Sent(Tail(log))
    ELSE Sent(Tail(log))

\* C13: a value sent as one frame, typed or raw, comes back equal from the
\* recv of its type that takes the frame, a raw string byte for byte.
C13_RoundTrip ==
    (/\ received.call = "recv"
     /\ rd = received.from + 1
     /\ received.types = <<Sent(returned)[rd].value.t>>) =>
        /\ received.ok
        /\ received.got = <<Sent(returned)[rd].value>>

\* A raw string with a zero byte and a byte above 127 went through, after a
\* typed string.
C13_Witness ==
    /\ received.call = "recv"
    /\ received.ok
    /\ received.from = 1
    /\ received.got = <<Raw(<<65, 0, 200>>)>>
    /\ Len(returned) = 2
    /\ returned[1].value = Str(<<65, 0>>)
    /\ returned[1].ok

\* C12: after bind(e), endpoint() is the configured hostname followed by e
\* from its last colon on, the colon included, and "<local>" when e has no
\* colon.
C12_Endpoint ==
    bound.ok =>
        LET e == bound.arg
        IN IF \A j \in 1..Len(e) : e[j] # ":"
           THEN endpoint = Local
           ELSE \E p \in 1..Len(e) :
                    /\ e[p] = ":"
                    /\ \A k \in (p + 1)..Len(e) : e[k] # ":"
                    /\ endpoint = hostname \o [j \in 1..(Len(e) - p + 1) |-> e[p + j - 1]]

\* An endpoint with two colons was bound: the suffix starts at the second.
C12_Witness ==
    /\ bound.ok
    /\ bound.arg = <<":", "a", ":", "1">>
    /\ hostname = <<"n", "2">>
    /\ endpoint = <<"n", "2", ":", "1">>

\* C14: at every exit of the slot the upstream is the one the deferred stores
\* or is already sealed: the slot never returns leaving its upstream
\* unattached and Open.
C14_AttachedOrSealed ==
    [][\A i \in Invocations :
          (pc[i] # "done" /\ pc'[i] = "done") =>
              (upstream' = i \/ ustate'[i] = "Sealed")]_vars

\* C14 witness: one invocation has left through attach with its upstream
\* stored and Open, another through a catch block with its upstream sealed and
\* never stored.
C14_Witness ==
    \E i, j \in Invocations :
        /\ pc[i] = "done" /\ op[i].name = "return" /\ upstream = i /\ ustate[i] = "Open"
        /\ pc[j] = "done" /\ op[j].name = "system_error" /\ ustate[j] = "Sealed"
        /\ nflush[j] = 0

\* C17: the deferred never blocks. A call of write, abort, close or attach
\* that has started and not yet returned can always take its next step, or is
\* waiting for the mutex while the call that holds it is inside its body or
\* flush and can take its next step: no call waits on a call that has returned
\* or that waits itself.
C17_NeverBlocks ==
    \A t \in Threads :
        pc[t] \notin {"idle", "done"} =>
            \/ ENABLED Step(t)
            \/ /\ pc[t] = "lock"
               /\ mutex \in Threads \ {t}
               /\ pc[mutex] \in {"body", "check", "flush", "visit", "unlock"}
               /\ ENABLED Step(mutex)

\* C17 witness: a call waits for the mutex while another, holding it, is in
\* the middle of its flush.
C17_Witness ==
    \E t, h \in Threads :
        /\ pc[t] = "lock"
        /\ mutex = h /\ pc[h] = "visit" /\ Len(todo[h]) = 1

\* C18: once a flush has delivered the terminal sequence onto an upstream and
\* returned, the state no longer stores that upstream.
C18_UpstreamReleased ==
    \A i \in Invocations :
        (nflush[i] > 0 /\ ustate[i] = "Sealed" /\ mutex = 0) => upstream # i

\* C19: attach replaces the stored upstream whatever it was. An upstream
\* replaced while the result was unassigned never receives anything; an
\* attach that finds the result terminal flushes onto the upstream it was
\* given, which has the whole terminal sequence when attach returns.
C19_AttachReplaces ==
    [][\A i \in Invocations :
          /\ (pc[i] = "body" /\ pc'[i] # "body") => upstream' = i
          /\ (Attached(i) /\ upstream # i /\ nflush[i] = 0) =>
                (delivered'[i] = << >> /\ ustate'[i] = "Open" /\ nflush'[i] = 0)
          /\ (pc[i] = "flush" /\ pc'[i] # "flush") => nflush'[i] = nflush[i] + 1
          /\ (pc[i] = "unlock" /\ pc'[i] = "done" /\ ~is_unassigned(result)) =>
                delivered'[i] = TerminalSequence(result)]_vars

\* C19 witness: both upstreams were attached, the first while the result was
\* unassigned; the write went to the second alone.
C19_Witness ==
    \E i, j \in Invocations :
        /\ Attached(i) /\ Attached(j) /\ upstream = j /\ i # j
        /\ Assigned /\ mutex = 0
        /\ nflush[i] = 0 /\ delivered[i] = << >> /\ ustate[i] = "Open"
        /\ nflush[j] = 1 /\ delivered[j] = TerminalSequence(result)

\* The kinds of the messages delivered on an upstream.
Kinds(d) == [k \in 1..Len(d) |-> d[k].kind]

\* C20: an upstream has one writer. Either the handler raised, the slot's
\* catch block wrote the error and no deferred ever stores or flushes onto the
\* upstream, or the handler returned and only flushes of the attached deferred
\* write to it. What is delivered is a prefix of chunk, choke or of error,
\* choke or of choke.
C20_OneWriter ==
    \A i \in Invocations :
        /\ \/ IsPrefix(Kinds(delivered[i]), <<"chunk", "choke">>)
           \/ IsPrefix(Kinds(delivered[i]), <<"error", "choke">>)
           \/ IsPrefix(Kinds(delivered[i]), <<"choke">>)
        /\ op[i].name \in {"system_error", "exception"} =>
              /\ nflush[i] = 0
              /\ upstream # i
              /\ IsPrefix(Kinds(delivered[i]), <<"error", "choke">>)
        /\ nflush[i] > 0 => op[i].name = "return"

\* C20 witness: a handler raised and its upstream has error, choke from the
\* catch block; a later write to the deferred has returned and delivered
\* nothing to it.
C20_Witness ==
    \E i \in Invocations :
        /\ pc[i] = "done" /\ op[i].name = "exception"
        /\ Kinds(delivered[i]) = <<"error", "choke">>
        /\ Assigned /\ result.tag = "value"
        /\ nflush[i] = 0

====
